---------------------------- MODULE Spec2Model ----------------------------
(***************************************************************************)
(* A model of the recipe importer of tavola                                *)
(* (src/netlify/functions/import-recipe.js): the request handler with its  *)
(* cascade of extractors, the field parsers and the normalizer.            *)
(*                                                                         *)
(* JavaScript values are tagged pairs <<type, payload>> (x[1] is the type   *)
(* of x and x[2] its payload; null and undefined have no payload):         *)
(* a string's payload is the sequence of its characters, an array's the    *)
(* sequence of its elements, an object's a function from its keys.         *)
(***************************************************************************)
EXTENDS Integers, Sequences, FiniteSets, TLC

(***************************************************************************)
(* JavaScript values                                                       *)
(***************************************************************************)
Undef == <<"undefined">>
Null == <<"null">>
NaN == <<"nan">>
Bool(b) == <<"boolean", b>>
Num(n) == <<"number", n>>
Str(s) == <<"string", s>>
Arr(s) == <<"array", s>>
Obj(f) == <<"object", f>>

\* What a raising call produces: a TypeError or SyntaxError in flight.
Throw == <<"throw">>

EmptyStr == Str(<<>>)

\* {}
EmptyObject == Obj([k \in {} |-> Undef])

\* typeof x, with Array.isArray(x) told apart as "array"
TypeOf(x) == IF x[1] = "nan" THEN "number" ELSE x[1]

IsArray(x) == x[1] = "array"

\* ToBoolean(x): what `!x`, `x || y`, `x && y`, `x ? a : b` and filter(Boolean) test
Truthy(x) ==
    CASE x[1] \in {"undefined", "null", "nan"} -> FALSE
      [] x[1] = "boolean" -> x[2]
      [] x[1] = "number" -> x[2] # 0
      [] x[1] = "string" -> x[2] # <<>>
      [] OTHER -> TRUE

\* a || b
Or(a, b) == IF Truthy(a) THEN a ELSE b

\* a && b
And(a, b) == IF Truthy(a) THEN b ELSE a

\* x[k] for a property name k: undefined unless x is an object that has k
Get(x, k) == IF x[1] = "object" /\ k \in DOMAIN x[2] THEN x[2][k] ELSE Undef

\* x[i] for an array index i (0-based)
At(x, i) == IF x[1] = "array" /\ i + 1 \in 1..Len(x[2]) THEN x[2][i + 1] ELSE Undef

\* Reading a property of null or undefined raises a TypeError.
NoProps(x) == x[1] \in {"undefined", "null"}

(***************************************************************************)
(* Characters and text                                                     *)
(***************************************************************************)
\* The characters the regular expressions' \s matches, of those modelled
WS == {" ", "\t", "\n"}

Digits == <<"0", "1", "2", "3", "4", "5", "6", "7", "8", "9">>

UpperLetters ==
    <<"A", "B", "C", "D", "E", "F", "G", "H", "I", "J", "K", "L", "M",
      "N", "O", "P", "Q", "R", "S", "T", "U", "V", "W", "X", "Y", "Z">>

LowerLetters ==
    <<"a", "b", "c", "d", "e", "f", "g", "h", "i", "j", "k", "l", "m",
      "n", "o", "p", "q", "r", "s", "t", "u", "v", "w", "x", "y", "z">>

IsDigit(c) == \E i \in 1..10 : Digits[i] = c

DigitVal(c) == (CHOOSE i \in 1..10 : Digits[i] = c) - 1

\* c.toLowerCase() of one character
Lower(c) ==
    IF \E i \in 1..26 : UpperLetters[i] = c
    THEN LowerLetters[CHOOSE i \in 1..26 : UpperLetters[i] = c]
    ELSE c

\* \w of the regular expressions: [A-Za-z0-9_]
IsWordChar(c) ==
    \/ IsDigit(c)
    \/ c = "_"
    \/ \E i \in 1..26 : UpperLetters[i] = c \/ LowerLetters[i] = c

RECURSIVE NatToText(_)
NatToText(n) ==
    IF n < 10 THEN <<Digits[n + 1]>>
    ELSE NatToText(n \div 10) \o <<Digits[(n % 10) + 1]>>

\* String(n) of an integer
IntToText(n) == IF n < 0 THEN <<"-">> \o NatToText(0 - n) ELSE NatToText(n)

RECURSIVE DigitsToNat(_)
DigitsToNat(s) ==
    IF s = <<>> THEN 0
    ELSE 10 * DigitsToNat(SubSeq(s, 1, Len(s) - 1)) + DigitVal(s[Len(s)])

\* The length of the run of digits of s that starts at index j
RECURSIVE DigitRun(_, _)
DigitRun(s, j) ==
    IF j <= Len(s) /\ IsDigit(s[j]) THEN 1 + DigitRun(s, j + 1) ELSE 0

\* The first index at or after j that holds no whitespace
RECURSIVE SkipWs(_, _)
SkipWs(s, j) == IF j <= Len(s) /\ s[j] \in WS THEN SkipWs(s, j + 1) ELSE j

RECURSIVE JoinTexts(_, _)
JoinTexts(ts, sep) ==
    IF ts = <<>> THEN <<>>
    ELSE IF Len(ts) = 1 THEN ts[1]
    ELSE ts[1] \o sep \o JoinTexts(Tail(ts), sep)

\* String(x), and the conversion join() and `+` apply
RECURSIVE ToText(_)
ToText(x) ==
    CASE x[1] = "string" -> x[2]
      [] x[1] = "number" -> IntToText(x[2])
      [] x[1] = "nan" -> <<"N", "a", "N">>
      [] x[1] = "null" -> <<"n", "u", "l", "l">>
      [] x[1] = "undefined" -> <<"u", "n", "d", "e", "f", "i", "n", "e", "d">>
      [] x[1] = "boolean" ->
            IF x[2] THEN <<"t", "r", "u", "e">> ELSE <<"f", "a", "l", "s", "e">>
      [] x[1] = "array" ->
            JoinTexts([i \in 1..Len(x[2]) |->
                          IF NoProps(x[2][i]) THEN <<>> ELSE ToText(x[2][i])],
                      <<",">>)
      [] OTHER ->
            <<"[", "o", "b", "j", "e", "c", "t", " ", "O", "b", "j", "e", "c", "t", "]">>

\* arr.join(sep)
Join(arr, sep) ==
    Str(JoinTexts([i \in 1..Len(arr[2]) |->
                      IF NoProps(arr[2][i]) THEN <<>> ELSE ToText(arr[2][i])],
                  sep))

\* a + b: a sum of two numbers, a concatenation as soon as one side is a
\* string, an array or an object
JsAdd(a, b) ==
    IF a[1] \in {"string", "array", "object"} \/ b[1] \in {"string", "array", "object"}
    THEN Str(ToText(a) \o ToText(b))
    ELSE IF a[1] \in {"nan", "undefined"} \/ b[1] \in {"nan", "undefined"} THEN NaN
    ELSE LET n(x) == CASE x[1] = "number" -> x[2]
                       [] x[1] = "boolean" -> IF x[2] THEN 1 ELSE 0
                       [] OTHER -> 0
         IN Num(n(a) + n(b))

\* parseInt(s) of a text: skips leading whitespace, reads an optional sign
\* and a run of decimal digits, NaN when there is none
parseInt(s) ==
    LET j == SkipWs(s, 1)
        signed == j <= Len(s) /\ s[j] \in {"+", "-"}
        k == IF signed THEN j + 1 ELSE j
        n == DigitRun(s, k)
    IN IF n = 0 THEN NaN
       ELSE IF signed /\ s[j] = "-"
            THEN Num(0 - DigitsToNat(SubSeq(s, k, k + n - 1)))
            ELSE Num(DigitsToNat(SubSeq(s, k, k + n - 1)))

\* s.trim()
RECURSIVE TrimEnd(_)
TrimEnd(s) ==
    IF s # <<>> /\ s[Len(s)] \in WS THEN TrimEnd(SubSeq(s, 1, Len(s) - 1)) ELSE s

Trim(s) == TrimEnd(SubSeq(s, SkipWs(s, 1), Len(s)))

(***************************************************************************)
(* Field parsers                                                           *)
(***************************************************************************)
\* s.replace(/\s+/g, ' ') from index i on: every run of whitespace becomes
\* one space (the first character of a run is kept, as a space)
CollapseWs(s, i) ==
    LET kept == SelectSeq([k \in 1..Len(s) - i + 1 |-> k + i - 1],
                          LAMBDA k : s[k] \notin WS \/ k = i \/ s[k - 1] \notin WS)
    IN [n \in 1..Len(kept) |-> IF s[kept[n]] \in WS THEN " " ELSE s[kept[n]]]

\* The index of the first c of s at or after i, 0 when there is none
IndexFrom(s, c, i) ==
    IF \E k \in i..Len(s) : s[k] = c
    THEN CHOOSE k \in i..Len(s) : s[k] = c /\ \A q \in i..k - 1 : s[q] # c
    ELSE 0

\* s.replace(/<[^>]*>/g, ''): scanning from the left, every '<' that some
\* '>' follows is removed together with the text up to the first such '>'
RECURSIVE StripTags(_, _)
StripTags(s, i) ==
    LET open == IndexFrom(s, "<", i)
        close == IF open = 0 THEN 0 ELSE IndexFrom(s, ">", open + 1)
    IN IF close = 0 THEN SubSeq(s, i, Len(s))
       ELSE SubSeq(s, i, open - 1) \o StripTags(s, close + 1)

cleanText(text) ==
    IF ~Truthy(text) THEN EmptyStr
    ELSE Str(Trim(StripTags(CollapseWs(ToText(text), 1), 1)))

\* The first index i of s with s[i..i+1] = "PT" in either case, 0 when none
RECURSIVE FindPT(_, _)
FindPT(s, i) ==
    IF i + 1 > Len(s) THEN 0
    ELSE IF Lower(s[i]) = "p" /\ Lower(s[i + 1]) = "t" THEN i
    ELSE FindPT(s, i + 1)

\* One optional group (?:(\d+)U)? tried at index j: the digits captured
\* (undefined when the group does not take part) and where the match goes on
DurationGroup(s, j, unit) ==
    LET n == DigitRun(s, j)
    IN IF n > 0 /\ j + n <= Len(s) /\ Lower(s[j + n]) = unit
       THEN [cap |-> Str(SubSeq(s, j, j + n - 1)), next |-> j + n + 1]
       ELSE [cap |-> Undef, next |-> j]

\* str.match(/PT(?:(\d+)H)?(?:(\d+)M)?(?:(\d+)S)?/i): null, or the captures
DurationMatch(s) ==
    LET p == FindPT(s, 1)
        h == DurationGroup(s, p + 2, "h")
        m == DurationGroup(s, h.next, "m")
        sec == DurationGroup(s, m.next, "s")
    IN IF p = 0 THEN Null
       ELSE Arr(<<Str(SubSeq(s, p, sec.next - 1)), h.cap, m.cap, sec.cap>>)

\* Math.ceil(a / b) for a >= 0, b > 0
CeilDiv(a, b) == (a + b - 1) \div b

\* parseInt(match[k] || 0)
GroupInt(match, k) == parseInt(ToText(Or(At(match, k), Num(0))))[2]

\* parseDuration with the seconds rounded down
parseDurationFloor(duration) ==
    IF ~Truthy(duration) THEN Null
    ELSE IF TypeOf(duration) = "number" THEN duration
    ELSE LET str == ToText(duration)
             match == DurationMatch(str)
             num == parseInt(str)
         IN IF Truthy(match)
            THEN Num(GroupInt(match, 1) * 60 + GroupInt(match, 2)
                     + (GroupInt(match, 3) \div 60))
            ELSE IF num = NaN THEN Null ELSE num

parseDuration(duration) ==
    IF ~Truthy(duration) THEN Null
    ELSE IF TypeOf(duration) = "number" THEN duration
    ELSE LET str == ToText(duration)
             match == DurationMatch(str)
             num == parseInt(str)
         IN IF Truthy(match)
            THEN Num(GroupInt(match, 1) * 60 + GroupInt(match, 2)
                     + CeilDiv(GroupInt(match, 3), 60))
            ELSE IF num = NaN THEN Null ELSE num

\* The index of the first digit of s at or after i, 0 when there is none
RECURSIVE FirstDigit(_, _)
FirstDigit(s, i) ==
    IF i > Len(s) THEN 0
    ELSE IF IsDigit(s[i]) THEN i
    ELSE FirstDigit(s, i + 1)

\* s.match(/(\d+)/): null, or the first run of digits
DigitsMatch(s) ==
    LET i == FirstDigit(s, 1)
    IN IF i = 0 THEN Null
       ELSE Arr(<<Str(SubSeq(s, i, i + DigitRun(s, i) - 1)),
                  Str(SubSeq(s, i, i + DigitRun(s, i) - 1))>>)

\* str.match is a function only on a string: on anything else the call raises
parseServings(yield_val) ==
    IF ~Truthy(yield_val) THEN Null
    ELSE IF TypeOf(yield_val) = "number" THEN yield_val
    ELSE LET str == IF IsArray(yield_val) THEN At(yield_val, 0)
                    ELSE Str(ToText(yield_val))
             match == DigitsMatch(str[2])
         IN IF str[1] # "string" THEN Throw
            ELSE IF Truthy(match) THEN parseInt(At(match, 1)[2]) ELSE Null

parseImage(image) ==
    IF ~Truthy(image) THEN EmptyStr
    ELSE IF TypeOf(image) = "string" THEN image
    ELSE IF IsArray(image) THEN Or(At(image, 0), EmptyStr)
    ELSE IF Truthy(Get(image, "url")) THEN Get(image, "url")
    ELSE IF Truthy(Get(image, "@id")) THEN Get(image, "@id")
    ELSE EmptyStr

parseCalories(nutrition) ==
    IF ~Truthy(nutrition) THEN Null
    ELSE LET cal == Or(Or(Get(nutrition, "calories"), Get(nutrition, "Calories")),
                       EmptyStr)
             match == DigitsMatch(ToText(cal))
         IN IF Truthy(match) THEN parseInt(At(match, 1)[2]) ELSE Null

(***************************************************************************)
(* Structured-data extractor                                               *)
(***************************************************************************)
RecipeType == Str(<<"R", "e", "c", "i", "p", "e">>)
HowToStep == Str(<<"H", "o", "w", "T", "o", "S", "t", "e", "p">>)
HowToSection == Str(<<"H", "o", "w", "T", "o", "S", "e", "c", "t", "i", "o", "n">>)

\* item['@type'] === 'Recipe' ||
\*   (Array.isArray(item['@type']) && item['@type'].includes('Recipe'))
IsRecipeTyped(item) ==
    LET ty == Get(item, "@type")
    IN \/ ty = RecipeType
       \/ IsArray(ty) /\ \E i \in 1..Len(ty[2]) : ty[2][i] = RecipeType

\* s.split(/\n+/): the pieces between the runs of newlines
RECURSIVE SplitLines(_, _, _)
SplitLines(s, i, cur) ==
    IF i > Len(s) THEN <<Str(cur)>>
    ELSE IF s[i] = "\n"
         THEN LET j == CHOOSE k \in i..Len(s) + 1 :
                          /\ \A q \in i..k - 1 : s[q] = "\n"
                          /\ k = Len(s) + 1 \/ s[k] # "\n"
              IN <<Str(cur)>> \o SplitLines(s, j, <<>>)
         ELSE SplitLines(s, i + 1, Append(cur, s[i]))

\* cleanText(s.text || s.name || ''): raises when s is null or undefined
StepText(s) ==
    IF NoProps(s) THEN Throw
    ELSE cleanText(Or(Or(Get(s, "text"), Get(s, "name")), EmptyStr))

\* The callback of recipeInstructions.map
StepLine(step) ==
    IF TypeOf(step) = "string" THEN cleanText(step)
    ELSE IF NoProps(step) THEN Throw
    ELSE IF Get(step, "@type") = HowToStep THEN StepText(step)
    ELSE IF Get(step, "@type") = HowToSection /\ IsArray(Get(step, "itemListElement"))
         THEN LET subs == Get(step, "itemListElement")[2]
                  lines == [i \in 1..Len(subs) |-> StepText(subs[i])]
              IN IF \E i \in 1..Len(subs) : lines[i] = Throw THEN Throw
                 ELSE Join(Arr(lines), <<" ">>)
    ELSE StepText(step)

\* recipe.instructions of parseSchemaRecipe: an array, or Throw
SchemaInstructions(ri) ==
    IF IsArray(ri)
    THEN LET lines == [i \in 1..Len(ri[2]) |-> StepLine(ri[2][i])]
         IN IF \E i \in 1..Len(ri[2]) : lines[i] = Throw THEN Throw
            ELSE Arr(SelectSeq(lines, Truthy))
    ELSE IF TypeOf(ri) = "string"
         THEN LET parts == SplitLines(ri[2], 1, <<>>)
              IN Arr(SelectSeq([i \in 1..Len(parts) |-> cleanText(parts[i])], Truthy))
    ELSE Arr(<<>>)

\* recipe.ingredients of parseSchemaRecipe
SchemaIngredients(ri) ==
    IF IsArray(ri) THEN Arr([i \in 1..Len(ri[2]) |-> cleanText(ri[2][i])])
    ELSE Arr(<<>>)

\* The candidate, or Throw when a field parser or a step callback raises
parseSchemaRecipe(data) ==
    LET servings == parseServings(Get(data, "recipeYield"))
        instructions == SchemaInstructions(Get(data, "recipeInstructions"))
        cuisine == Get(data, "recipeCuisine")
        category == Get(data, "recipeCategory")
    IN IF servings = Throw \/ instructions = Throw THEN Throw
       ELSE Obj([name |-> Or(Get(data, "name"), EmptyStr),
                 description |-> Or(Get(data, "description"), EmptyStr),
                 ingredients |-> SchemaIngredients(Get(data, "recipeIngredient")),
                 instructions |-> instructions,
                 prepTime |-> parseDuration(Get(data, "prepTime")),
                 cookTime |-> parseDuration(Get(data, "cookTime")),
                 totalTime |-> parseDuration(Get(data, "totalTime")),
                 servings |-> servings,
                 image |-> parseImage(Get(data, "image")),
                 cuisine |-> IF IsArray(cuisine) THEN Join(cuisine, <<",", " ">>)
                             ELSE Or(cuisine, EmptyStr),
                 category |-> IF IsArray(category) THEN At(category, 0)
                              ELSE Or(category, EmptyStr),
                 calories |-> parseCalories(Get(data, "nutrition"))])

\* data.find(item => ...) from index i: the first Recipe-typed item,
\* undefined when there is none, Throw when an item before it is null
RECURSIVE FindRecipe(_, _)
FindRecipe(items, i) ==
    IF i > Len(items) THEN Undef
    ELSE IF NoProps(items[i]) THEN Throw
    ELSE IF IsRecipeTyped(items[i]) THEN items[i]
    ELSE FindRecipe(items, i + 1)

\* ScanBlock without the unwrapping of @graph
ScanBlockWrapped(block) ==
    IF block = Throw \/ NoProps(block) THEN Undef
    ELSE LET found == FindRecipe(block[2], 1)
             parsed == IF IsArray(block) THEN parseSchemaRecipe(found)
                       ELSE parseSchemaRecipe(block)
         IN IF IsArray(block)
            THEN IF found = Throw \/ ~Truthy(found) \/ parsed = Throw
                 THEN Undef ELSE parsed
            ELSE IF IsRecipeTyped(block) /\ parsed # Throw THEN parsed
            ELSE Undef

\* A script block is what JSON.parse makes of its text: a value, or Throw
\* for a SyntaxError.  The body of the loop of extractJsonLd for one block:
\* the candidate it returns, or undefined when the loop goes on (no Recipe
\* in the block, or an exception caught).
ScanBlock(block) ==
    IF block = Throw \/ NoProps(block) THEN Undef
    ELSE LET data == IF Truthy(Get(block, "@graph")) THEN Get(block, "@graph")
                     ELSE block
             found == FindRecipe(data[2], 1)
             parsed == IF IsArray(data) THEN parseSchemaRecipe(found)
                       ELSE parseSchemaRecipe(data)
         IN IF IsArray(data)
            THEN IF found = Throw \/ ~Truthy(found) \/ parsed = Throw
                 THEN Undef ELSE parsed
            ELSE IF IsRecipeTyped(data) /\ parsed # Throw THEN parsed
            ELSE Undef

RECURSIVE JsonLdFrom(_, _)
JsonLdFrom(scripts, i) ==
    IF i > Len(scripts) THEN Null
    ELSE IF ScanBlock(scripts[i]) # Undef THEN ScanBlock(scripts[i])
    ELSE JsonLdFrom(scripts, i + 1)

extractJsonLd(doc) == JsonLdFrom(doc.scripts, 1)

(***************************************************************************)
(* Microdata extractor                                                     *)
(*                                                                         *)
(* doc.micro holds what the selectors find: count, the number of elements  *)
(* whose itemtype contains schema.org/Recipe, and for every property the   *)
(* sequence, in document order, of the matching elements below them, each  *)
(* [text, content, src] (an attribute the element lacks is undefined).     *)
(***************************************************************************)
\* els.first().text()
FirstText(els) == IF els = <<>> THEN <<>> ELSE els[1].text

\* els.text(): the texts of all the elements, concatenated
AllText(els) == JoinTexts([i \in 1..Len(els) |-> els[i].text], <<>>)

\* els.attr(a): the attribute of the first element
Attr(els, a) ==
    IF els = <<>> THEN Undef
    ELSE IF a = "content" THEN els[1].content
    ELSE els[1].src

\* els.map((_, el) => $(el).text().trim()).get()
TrimmedTexts(els) == Arr([i \in 1..Len(els) |-> Str(Trim(els[i].text))])

\* extractMicrodata made to return null for an item without a name
extractMicrodataIfNamed(doc) ==
    LET el == doc.micro
    IN IF el.count = 0 \/ Trim(FirstText(el.name)) = <<>> THEN Null
       ELSE Obj([name |-> Or(Str(Trim(FirstText(el.name))), EmptyStr),
                 description |-> Or(Str(Trim(FirstText(el.description))), EmptyStr),
                 ingredients |-> TrimmedTexts(el.ingredients),
                 instructions |-> TrimmedTexts(el.instructions),
                 prepTime |-> parseDuration(Or(Attr(el.prepTime, "content"),
                                               Str(AllText(el.prepTime)))),
                 cookTime |-> parseDuration(Or(Attr(el.cookTime, "content"),
                                               Str(AllText(el.cookTime)))),
                 totalTime |-> parseDuration(Or(Attr(el.totalTime, "content"),
                                                Str(AllText(el.totalTime)))),
                 servings |-> parseServings(Str(AllText(el.recipeYield))),
                 image |-> Or(Or(Attr(el.image, "src"), Attr(el.image, "content")),
                              EmptyStr),
                 cuisine |-> Str(Trim(AllText(el.recipeCuisine))),
                 category |-> Str(Trim(AllText(el.recipeCategory))),
                 calories |-> Null])

extractMicrodata(doc) ==
    LET el == doc.micro
    IN IF el.count = 0 THEN Null
       ELSE Obj([name |-> Or(Str(Trim(FirstText(el.name))), EmptyStr),
                 description |-> Or(Str(Trim(FirstText(el.description))), EmptyStr),
                 ingredients |-> TrimmedTexts(el.ingredients),
                 instructions |-> TrimmedTexts(el.instructions),
                 prepTime |-> parseDuration(Or(Attr(el.prepTime, "content"),
                                               Str(AllText(el.prepTime)))),
                 cookTime |-> parseDuration(Or(Attr(el.cookTime, "content"),
                                               Str(AllText(el.cookTime)))),
                 totalTime |-> parseDuration(Or(Attr(el.totalTime, "content"),
                                                Str(AllText(el.totalTime)))),
                 servings |-> parseServings(Str(AllText(el.recipeYield))),
                 image |-> Or(Or(Attr(el.image, "src"), Attr(el.image, "content")),
                              EmptyStr),
                 cuisine |-> Str(Trim(AllText(el.recipeCuisine))),
                 category |-> Str(Trim(AllText(el.recipeCategory))),
                 calories |-> Null])

(***************************************************************************)
(* Heuristic extractor                                                     *)
(*                                                                         *)
(* doc.h1, doc.title, doc.ul and doc.ol are the texts of the h1 elements,  *)
(* of the title elements, of the items of unordered and of ordered lists;  *)
(* doc.metaDescription and doc.ogImage the content attributes of the meta  *)
(* tags (undefined when the page has none).                                *)
(***************************************************************************)
measurements ==
    { <<"c", "u", "p">>,
      <<"c", "u", "p", "s">>,
      <<"t", "b", "s", "p">>,
      <<"t", "s", "p">>,
      <<"t", "a", "b", "l", "e", "s", "p", "o", "o", "n">>,
      <<"t", "e", "a", "s", "p", "o", "o", "n">>,
      <<"o", "z">>,
      <<"o", "u", "n", "c", "e">>,
      <<"p", "o", "u", "n", "d">>,
      <<"l", "b">>,
      <<"g", "r", "a", "m">>,
      <<"k", "g">>,
      <<"m", "l">>,
      <<"l", "i", "t", "e", "r">>,
      <<"p", "i", "n", "c", "h">>,
      <<"d", "a", "s", "h">>,
      <<"c", "l", "o", "v", "e">>,
      <<"b", "u", "n", "c", "h">>,
      <<"c", "a", "n">>,
      <<"p", "a", "c", "k", "a", "g", "e">>,
      <<"p", "k", "g">>,
      <<"b", "a", "g">>,
      <<"s", "l", "i", "c", "e">>,
      <<"p", "i", "e", "c", "e">>,
      <<"w", "h", "o", "l", "e">>,
      <<"h", "a", "l", "f">>,
      <<"q", "u", "a", "r", "t", "e", "r">>,
      <<"l", "a", "r", "g", "e">>,
      <<"m", "e", "d", "i", "u", "m">>,
      <<"s", "m", "a", "l", "l">>,
      <<"f", "r", "e", "s", "h">>,
      <<"d", "r", "i", "e", "d">>,
      <<"m", "i", "n", "c", "e", "d">>,
      <<"c", "h", "o", "p", "p", "e", "d">>,
      <<"d", "i", "c", "e", "d">> }

ingredients ==
    { <<"s", "a", "l", "t">>,
      <<"p", "e", "p", "p", "e", "r">>,
      <<"o", "i", "l">>,
      <<"b", "u", "t", "t", "e", "r">>,
      <<"g", "a", "r", "l", "i", "c">>,
      <<"o", "n", "i", "o", "n">>,
      <<"s", "u", "g", "a", "r">>,
      <<"f", "l", "o", "u", "r">>,
      <<"e", "g", "g">>,
      <<"m", "i", "l", "k">>,
      <<"c", "r", "e", "a", "m">>,
      <<"c", "h", "e", "e", "s", "e">>,
      <<"c", "h", "i", "c", "k", "e", "n">>,
      <<"b", "e", "e", "f">>,
      <<"p", "o", "r", "k">>,
      <<"f", "i", "s", "h">>,
      <<"r", "i", "c", "e">>,
      <<"p", "a", "s", "t", "a">>,
      <<"t", "o", "m", "a", "t", "o">>,
      <<"l", "e", "m", "o", "n">>,
      <<"h", "e", "r", "b">>,
      <<"s", "p", "i", "c", "e">>,
      <<"s", "a", "u", "c", "e">>,
      <<"v", "i", "n", "e", "g", "a", "r">>,
      <<"b", "r", "o", "t", "h">>,
      <<"s", "t", "o", "c", "k">>,
      <<"w", "a", "t", "e", "r">> }

\* /\b(w1|w2|...)\b/.test(s): some word of the set stands in s between two
\* word boundaries
TestWords(words, s) ==
    \E w \in words :
        \E i \in 1..Len(s) :
            /\ i + Len(w) - 1 <= Len(s)
            /\ SubSeq(s, i, i + Len(w) - 1) = w
            /\ i = 1 \/ ~IsWordChar(s[i - 1])
            /\ i + Len(w) - 1 = Len(s) \/ ~IsWordChar(s[i + Len(w)])

looksLikeIngredient(text) ==
    LET lower == [i \in 1..Len(text) |-> Lower(text[i])]
    IN TestWords(measurements, lower) \/ TestWords(ingredients, lower)

\* The two length windows of extractHeuristic (exclusive limits)
IngredientMinLen == 3
IngredientMaxLen == 200
InstructionMinLen == 10
InstructionMaxLen == 1000

\* HeuristicIngredients with the lower limit taken as inclusive
HeuristicIngredientsFromMin(doc) ==
    LET texts == [i \in 1..Len(doc.ul) |-> Trim(doc.ul[i])]
        keep(t) == /\ Len(t) >= IngredientMinLen
                   /\ Len(t) < IngredientMaxLen
                   /\ looksLikeIngredient(t)
    IN [i \in 1..Len(SelectSeq(texts, keep)) |-> Str(SelectSeq(texts, keep)[i])]

\* The items pushed by the $('ul li').each callback, in order
HeuristicIngredients(doc) ==
    LET texts == [i \in 1..Len(doc.ul) |-> Trim(doc.ul[i])]
        keep(t) == /\ Len(t) > IngredientMinLen
                   /\ Len(t) < IngredientMaxLen
                   /\ looksLikeIngredient(t)
    IN [i \in 1..Len(SelectSeq(texts, keep)) |-> Str(SelectSeq(texts, keep)[i])]

\* The items pushed by the $('ol li').each callback, in order
HeuristicInstructions(doc) ==
    LET texts == [i \in 1..Len(doc.ol) |-> Trim(doc.ol[i])]
        keep(t) == Len(t) > InstructionMinLen /\ Len(t) < InstructionMaxLen
    IN [i \in 1..Len(SelectSeq(texts, keep)) |-> Str(SelectSeq(texts, keep)[i])]

extractHeuristic(doc) ==
    LET title == Or(Str(Trim(IF doc.h1 = <<>> THEN <<>> ELSE doc.h1[1])),
                    Str(Trim(JoinTexts(doc.title, <<>>))))
        ings == HeuristicIngredients(doc)
        steps == HeuristicInstructions(doc)
    IN IF ~Truthy(title) THEN Null
       ELSE IF Len(ings) < 2 /\ Len(steps) < 2 THEN Null
       ELSE Obj([name |-> title,
                 description |-> Or(doc.metaDescription, EmptyStr),
                 ingredients |-> Arr(ings),
                 instructions |-> Arr(steps),
                 prepTime |-> Null,
                 cookTime |-> Null,
                 totalTime |-> Null,
                 servings |-> Null,
                 image |-> Or(doc.ogImage, EmptyStr),
                 cuisine |-> EmptyStr,
                 category |-> EmptyStr,
                 calories |-> Null])

(***************************************************************************)
(* AI-assisted extractor                                                   *)
(*                                                                         *)
(* The language-model service is the environment.  One call ends in one of *)
(*   [kind |-> "rejects"]            fetch rejects: network error, timeout *)
(*   [kind |-> "status"]             a response whose ok is false          *)
(*   [kind |-> "body"]               response.json() rejects               *)
(*   [kind |-> "json", data |-> d]   the parsed response body d            *)
(* The reply text is a string whose characters are plain characters Ch(c)  *)
(* and serialized JSON objects Json(o): Json(o) stands for the characters  *)
(* JSON.stringify(o) gives, which start with '{' and end with '}'.         *)
(***************************************************************************)
Ch(c) == <<"ch", c>>
Json(o) == <<"json", o>>

HasOpen(item) == IF item[1] = "json" THEN TRUE ELSE item[2] = "{"
HasClose(item) == IF item[1] = "json" THEN TRUE ELSE item[2] = "}"

\* text.match(/\{[\s\S]*\}/): from the first '{' to the last '}' of the
\* text (the star is greedy), null when no '}' follows the first '{'
BraceMatch(text) ==
    LET opens == {i \in 1..Len(text) : HasOpen(text[i])}
        closes == {i \in 1..Len(text) : HasClose(text[i])}
        first == CHOOSE i \in opens : \A j \in opens : i <= j
        last == CHOOSE i \in closes : \A j \in closes : j <= i
    IN IF opens = {} \/ closes = {} THEN Null
       ELSE IF last > first \/ (last = first /\ text[first][1] = "json")
            THEN Arr(<<Str(SubSeq(text, first, last))>>)
       ELSE Null

\* JSON.parse(blob) of a blob that starts with '{' and ends with '}': the
\* object when the blob is one serialized object, the empty object when it
\* is a pair of braces around whitespace, a SyntaxError (Throw) otherwise
JsonParse(blob) ==
    IF Len(blob) = 1 /\ blob[1][1] = "json" THEN blob[1][2]
    ELSE IF /\ Len(blob) >= 2
            /\ \A i \in 1..Len(blob) : blob[i][1] = "ch"
            /\ blob[1][2] = "{" /\ blob[Len(blob)][2] = "}"
            /\ \A i \in 2..Len(blob) - 1 : blob[i][2] \in WS
         THEN EmptyObject
    ELSE Throw

\* data.content?.[0]?.text, Throw when data is null
ReplyText(data) ==
    LET content == Get(data, "content")
        first == IF IsArray(content) THEN At(content, 0) ELSE Get(content, "0")
    IN IF NoProps(data) THEN Throw
       ELSE IF NoProps(content) \/ NoProps(first) THEN Undef
       ELSE Get(first, "text")

\* The candidate built from the parsed reply
ClaudeCandidate(parsed) ==
    Obj([name |-> Or(Get(parsed, "name"), EmptyStr),
         description |-> Or(Get(parsed, "description"), EmptyStr),
         ingredients |-> Or(Get(parsed, "ingredients"), Arr(<<>>)),
         instructions |-> Or(Get(parsed, "instructions"), Arr(<<>>)),
         prepTime |-> Get(parsed, "prepTime"),
         cookTime |-> Get(parsed, "cookTime"),
         totalTime |-> IF Truthy(And(Get(parsed, "prepTime"), Get(parsed, "cookTime")))
                       THEN JsAdd(Get(parsed, "prepTime"), Get(parsed, "cookTime"))
                       ELSE Null,
         servings |-> Get(parsed, "servings"),
         image |-> EmptyStr,
         cuisine |-> Or(Get(parsed, "cuisine"), EmptyStr),
         category |-> Or(Get(parsed, "category"), EmptyStr),
         calories |-> Null])

\* extractWithClaude without `if (parsed.error) return null`
extractWithClaudeAnyReply(llm) ==
    IF llm.kind # "json" THEN Null
    ELSE LET text == Or(ReplyText(llm.data), EmptyStr)
             jsonMatch == BraceMatch(text[2])
             parsed == JsonParse(At(jsonMatch, 0)[2])
         IN IF ReplyText(llm.data) = Throw THEN Null
            ELSE IF TypeOf(text) # "string" THEN Null
            ELSE IF ~Truthy(jsonMatch) THEN Null
            ELSE IF parsed = Throw THEN Null
            ELSE ClaudeCandidate(parsed)

\* What extractWithClaude returns when the service behaves as llm: every
\* exception below the try is caught and gives null
extractWithClaude(llm) ==
    IF llm.kind # "json" THEN Null
    ELSE LET text == Or(ReplyText(llm.data), EmptyStr)
             jsonMatch == BraceMatch(text[2])
             parsed == JsonParse(At(jsonMatch, 0)[2])
         IN IF ReplyText(llm.data) = Throw THEN Null
            ELSE IF TypeOf(text) # "string" THEN Null
            ELSE IF ~Truthy(jsonMatch) THEN Null
            ELSE IF parsed = Throw THEN Null
            ELSE IF Truthy(Get(parsed, "error")) THEN Null
            ELSE ClaudeCandidate(parsed)

(***************************************************************************)
(* Normalizer                                                              *)
(***************************************************************************)
ImportedRecipe ==
    Str(<<"I", "m", "p", "o", "r", "t", "e", "d", " ", "R", "e", "c", "i", "p", "e">>)

\* CleanList without filter(Boolean)
CleanListUnfiltered(list) ==
    LET l == Or(list, Arr(<<>>))
    IN IF ~IsArray(l) THEN Throw
       ELSE Arr([i \in 1..Len(l[2]) |-> cleanText(l[2][i])])

\* (list || []).map(i => cleanText(i)).filter(Boolean): Throw when the list
\* is a truthy value that is no array (it has no map to call)
CleanList(list) ==
    LET l == Or(list, Arr(<<>>))
    IN IF ~IsArray(l) THEN Throw
       ELSE Arr(SelectSeq([i \in 1..Len(l[2]) |-> cleanText(l[2][i])], Truthy))

\* recipe.totalTime || (recipe.prepTime && recipe.cookTime
\*                         ? recipe.prepTime + recipe.cookTime : null)
NormalTotalTime(recipe) ==
    Or(recipe[2].totalTime,
       IF Truthy(And(recipe[2].prepTime, recipe[2].cookTime))
       THEN JsAdd(recipe[2].prepTime, recipe[2].cookTime)
       ELSE Null)

\* The canonical Recipe, stamped at time now; Throw when the call raises
normalizeRecipe(recipe, sourceUrl, now) ==
    IF CleanList(recipe[2].ingredients) = Throw \/ CleanList(recipe[2].instructions) = Throw
    THEN Throw
    ELSE Obj([name |-> Or(cleanText(recipe[2].name), ImportedRecipe),
              description |-> Or(cleanText(recipe[2].description), EmptyStr),
              ingredients |-> CleanList(recipe[2].ingredients),
              instructions |-> CleanList(recipe[2].instructions),
              prepTime |-> Or(recipe[2].prepTime, Null),
              cookTime |-> Or(recipe[2].cookTime, Null),
              totalTime |-> NormalTotalTime(recipe),
              servings |-> Or(recipe[2].servings, Null),
              image |-> Or(recipe[2].image, EmptyStr),
              cuisine |-> Or(cleanText(recipe[2].cuisine), EmptyStr),
              category |-> Or(cleanText(recipe[2].category), EmptyStr),
              calories |-> Or(recipe[2].calories, Null),
              sourceUrl |-> sourceUrl,
              importedAt |-> now])

(***************************************************************************)
(* The inputs: bounds, pages and behaviours of the language-model service  *)
(***************************************************************************)
\* Durations and minute counts run over 0..MaxMinutes
MaxMinutes == 2
\* A page has at most MaxItems items in each of its lists
MaxItems == 2
\* The clock reads 0..MaxClock
MaxClock == 1

Cod == <<"C", "o", "d">>
Pie == <<"P", "i", "e">>
\* "a <b> c": a tag between two spaces
Tagged == <<"a", " ", "<", "b", ">", " ", "c">>
\* " Cod\n\n pie ": whitespace to trim and to collapse
Padded == <<" ", "C", "o", "d", "\n", "\n", " ", "p", "i", "e", " ">>
\* "<i>": nothing but a tag
OnlyTag == <<"<", "i", ">">>
Salt == <<"s", "a", "l", "t">>
CupRice == <<"1", " ", "c", "u", "p", " ", "r", "i", "c", "e">>
Home == <<"H", "o", "m", "e">>
BakeIt == <<"B", "a", "k", "e", " ", "t", "h", "e", " ", "c", "o", "d">>
ServeIt == <<"S", "e", "r", "v", "e", " ", "i", "t", " ", "h", "o", "t">>
Serves4 == <<"S", "e", "r", "v", "e", "s", " ", "4">>
ImgUrl == <<"/", "i", ".", "p", "n", "g">>
PageUrl == Str(<<"/", "c", "o", "d">>)
NoRecipeFound ==
    Str(<<"n", "o", " ", "r", "e", "c", "i", "p", "e", " ", "f", "o", "u", "n", "d">>)

\* "PT<n>M"
PTM(n) == <<"P", "T">> \o NatToText(n) \o <<"M">>

\* All sequences over S of length 0..n
SeqsUpTo(S, n) == UNION {[1..k -> S] : k \in 0..n}

\* A schema.org object with the given fields (undefined: the field is absent)
LdObject(type, f) == Obj(("@type" :> type) @@ f)

NoFields ==
    [name |-> Undef, description |-> Undef, recipeIngredient |-> Undef,
     recipeInstructions |-> Undef, prepTime |-> Undef, cookTime |-> Undef,
     totalTime |-> Undef, recipeYield |-> Undef, image |-> Undef,
     recipeCuisine |-> Undef, recipeCategory |-> Undef, nutrition |-> Undef]

BaseFields ==
    [NoFields EXCEPT !.name = Str(Cod),
                     !.recipeIngredient = Arr(<<Str(Salt), Str(CupRice)>>),
                     !.recipeInstructions = Arr(<<Str(BakeIt), Str(ServeIt)>>)]

BaseRecipe == LdObject(RecipeType, BaseFields)

\* The values of a duration field of structured data
LdTimes == {Undef} \cup {Str(PTM(n)) : n \in 0..MaxMinutes}

\* Recipes that differ in their three durations
TimedRecipes ==
    {LdObject(RecipeType, [BaseFields EXCEPT !.prepTime = p, !.cookTime = c,
                                             !.totalTime = t]) :
        p \in LdTimes, c \in LdTimes, t \in LdTimes}

\* The values of a text field of structured data
LdTexts == {Undef, Str(Cod), Str(Tagged), Str(Padded), Str(OnlyTag), Num(7)}

\* Recipes that differ in their texts and lists
TextRecipes ==
    {LdObject(RecipeType, [NoFields EXCEPT !.name = n, !.recipeCuisine = n,
                                           !.description = d]) :
        n \in LdTexts, d \in {Undef, Str(Tagged)}}
    \cup
    {LdObject(RecipeType, [BaseFields EXCEPT !.recipeIngredient = l,
                                             !.recipeInstructions = l,
                                             !.recipeCategory = l]) :
        l \in {Arr(<<>>), Arr(<<Str(Tagged), Str(OnlyTag), Str(Padded)>>),
               Arr(<<Str(Salt)>>)}}
    \cup
    {LdObject(RecipeType, [BaseFields EXCEPT !.recipeInstructions = i]) :
        i \in {Str(Padded),
               Arr(<<LdObject(HowToStep, [text |-> Str(BakeIt)]),
                     LdObject(HowToSection,
                              [itemListElement |->
                                  Arr(<<LdObject(HowToStep, [text |-> EmptyStr]),
                                        LdObject(HowToStep, [name |-> Str(ServeIt)])>>)])>>),
               Arr(<<Str(BakeIt),
                     LdObject(HowToSection,
                              [itemListElement |->
                                  Arr(<<LdObject(HowToStep, [text |-> EmptyStr]),
                                        LdObject(HowToStep, [text |-> EmptyStr])>>)])>>),
               Arr(<<Str(BakeIt), Null>>)}}

\* Recipes that differ in the shapes of their other fields
ShapedRecipes ==
    {LdObject(RecipeType, [BaseFields EXCEPT !.recipeYield = y, !.prepTime = y]) :
        y \in {Num(4), Str(Serves4), Arr(<<Str(Serves4)>>), Arr(<<Num(4)>>)}}
    \cup
    {LdObject(RecipeType, [BaseFields EXCEPT !.image = i, !.nutrition = n]) :
        i \in {Str(ImgUrl), Arr(<<Str(ImgUrl)>>), Arr(<<Obj([url |-> Str(ImgUrl)])>>),
               Obj([url |-> Str(ImgUrl)]), Obj(("@id" :> Str(ImgUrl)))},
        n \in {Undef, Obj([calories |-> Str(Serves4)])}}

\* The sequences of script blocks that differ in where the Recipe stands
ScriptLayouts ==
    LET other == LdObject(Str(Pie), NoFields)
        pie == LdObject(RecipeType, [NoFields EXCEPT !.name = Str(Pie)])
    IN {<<>>, <<Throw>>, <<other>>, <<Null>>,
        <<BaseRecipe>>, <<Throw, BaseRecipe>>, <<other, BaseRecipe>>,
        <<BaseRecipe, pie>>,
        <<Obj(("@graph" :> Arr(<<other, BaseRecipe>>)))>>,
        <<Arr(<<other, BaseRecipe, pie>>)>>,
        <<LdObject(Arr(<<Str(Pie), RecipeType>>), BaseFields)>>}

\* The @graph arrays with the Recipe r as their one Recipe-typed entry,
\* at each position among entries that are no Recipe
GraphsOf(r) ==
    LET other == LdObject(Str(Pie), NoFields)
        types == LdObject(Arr(<<Str(Pie), Str(Cod)>>), BaseFields)
    IN {<<r>>, <<r, other>>, <<other, r>>, <<types, EmptyObject, r, other>>}

\* Single blocks {"@graph": [...]} around one Recipe
GraphLayouts ==
    {<<Obj(("@graph" :> Arr(g)))>> :
        g \in UNION {GraphsOf(r) : r \in TextRecipes \cup ShapedRecipes}}

\* An element with a text and no attribute
El(text) == [text |-> text, content |-> Undef, src |-> Undef]

\* No element of the page is a microdata Recipe item
NoMicro ==
    [count |-> 0, name |-> <<>>, description |-> <<>>, ingredients |-> <<>>,
     instructions |-> <<>>, prepTime |-> <<>>, cookTime |-> <<>>,
     totalTime |-> <<>>, recipeYield |-> <<>>, image |-> <<>>,
     recipeCuisine |-> <<>>, recipeCategory |-> <<>>]

\* A Recipe item with no annotated property below it
BareMicro == [NoMicro EXCEPT !.count = 1]

BaseMicro ==
    [BareMicro EXCEPT !.name = <<El(Pie), El(Cod)>>,
                      !.ingredients = <<El(Salt), El(Padded)>>,
                      !.instructions = <<El(BakeIt), El(ServeIt)>>]

\* Recipe items that differ in their durations, texts and attributes
Micros ==
    {[BaseMicro EXCEPT !.prepTime = p, !.cookTime = c, !.totalTime = t] :
        p \in {<<>>, <<[El(<<>>) EXCEPT !.content = Str(PTM(MaxMinutes))]>>},
        c \in {<<>>, <<El(PTM(1))>>},
        t \in {<<>>, <<El(PTM(1))>>, <<El(PTM(0))>>}}
    \cup
    {[BareMicro EXCEPT !.name = n, !.recipeCuisine = n, !.recipeYield = n,
                       !.image = i] :
        n \in {<<>>, <<El(Tagged)>>, <<El(Padded)>>, <<El(Serves4), El(Cod)>>},
        i \in {<<>>, <<[El(<<>>) EXCEPT !.src = Str(ImgUrl)]>>,
               <<[El(<<>>) EXCEPT !.content = Str(ImgUrl)]>>}}

\* The parts of a page the heuristic extractor reads
NoPage ==
    [h1 |-> <<>>, title |-> <<>>, ul |-> <<>>, ol |-> <<>>,
     metaDescription |-> Undef, ogImage |-> Undef]

Pages ==
    {[h1 |-> h, title |-> t, ul |-> u, ol |-> o,
      metaDescription |-> Undef, ogImage |-> Undef] :
        h \in {<<>>, <<Padded, Pie>>}, t \in {<<>>, <<Cod>>},
        u \in SeqsUpTo({CupRice, Home}, MaxItems),
        o \in SeqsUpTo({BakeIt}, MaxItems)}
    \cup
    {[NoPage EXCEPT !.h1 = <<Cod>>, !.ul = <<Salt, CupRice>>,
                    !.metaDescription = Str(Tagged), !.ogImage = Str(ImgUrl)]}

\* The text of n characters that starts with prefix, goes on with a space
\* and is filled with the letter x
Fill(prefix, n) ==
    [i \in 1..n |-> IF i <= Len(prefix) THEN prefix[i]
                    ELSE IF i = Len(prefix) + 1 THEN " "
                    ELSE "x"]

Egg == <<"e", "g", "g">>

\* List items as long as the limits of the ingredient window, and next to them
EdgeIngredients ==
    {Egg, Fill(Salt, IngredientMinLen + 1), <<" ">> \o Egg \o <<" ", " ">>,
     Fill(Salt, IngredientMaxLen - 1), Fill(Salt, IngredientMaxLen)}

\* List items as long as the limits of the instruction window, and next to them
EdgeInstructions ==
    {Fill(Cod, InstructionMinLen), Fill(Cod, InstructionMinLen + 1),
     Fill(Cod, InstructionMaxLen - 1), Fill(Cod, InstructionMaxLen)}

\* Pages with two list items: one well inside the window, one at or next
\* to a limit
EdgePages ==
    {[NoPage EXCEPT !.h1 = <<Cod>>, !.ul = <<Fill(Salt, IngredientMinLen + 1), u>>] :
        u \in EdgeIngredients}
    \cup {[NoPage EXCEPT !.title = <<Pie>>, !.ol = <<BakeIt, o>>] :
             o \in EdgeInstructions}

\* The page the heuristic extractor accepts in the layouts below
BasePage == [NoPage EXCEPT !.title = <<Cod>>, !.ol = <<BakeIt, ServeIt>>]

Doc(scripts, micro, page) ==
    [scripts |-> scripts, micro |-> micro,
     h1 |-> page.h1, title |-> page.title, ul |-> page.ul, ol |-> page.ol,
     metaDescription |-> page.metaDescription, ogImage |-> page.ogImage]

\* The pages a fetch may return
Docs ==
    {Doc(<<r>>, NoMicro, NoPage) : r \in TimedRecipes \cup TextRecipes \cup ShapedRecipes}
    \cup {Doc(s, m, p) : s \in ScriptLayouts, m \in {NoMicro, BareMicro, BaseMicro},
                         p \in {NoPage, BasePage}}
    \cup {Doc(s, NoMicro, NoPage) : s \in GraphLayouts}
    \cup {Doc(<<>>, m, NoPage) : m \in Micros}
    \cup {Doc(<<>>, NoMicro, p) : p \in Pages \cup EdgePages}

NoReply ==
    [name |-> Undef, description |-> Undef, ingredients |-> Undef,
     instructions |-> Undef, prepTime |-> Undef, cookTime |-> Undef,
     servings |-> Undef, cuisine |-> Undef, category |-> Undef, error |-> Undef]

BaseReply ==
    [NoReply EXCEPT !.name = Str(Cod),
                    !.ingredients = Arr(<<Str(Salt), Str(CupRice)>>),
                    !.instructions = Arr(<<Str(BakeIt), Str(ServeIt)>>),
                    !.prepTime = Null, !.cookTime = Null, !.servings = Null]

\* The values of a duration field of a reply
AiTimes ==
    {Undef, Null, Str(NatToText(MaxMinutes))} \cup {Num(n) : n \in 0..MaxMinutes}

\* Values of every JSON type, for the other fields of a reply
AiValues ==
    {Undef, Null, Bool(TRUE), Bool(FALSE), Num(0), Num(4), EmptyStr, Str(Cod),
     Str(Tagged), Arr(<<>>), Arr(<<Str(Tagged), Num(4), Null>>), EmptyObject}

\* The values of the error field of a reply
AiErrors == {NoRecipeFound, EmptyStr, Null, Bool(FALSE), Num(0), Bool(TRUE), EmptyObject}

\* The JSON objects the model may put in its reply
ReplyObjects ==
    {Obj([BaseReply EXCEPT !.prepTime = p, !.cookTime = c]) : p \in AiTimes, c \in AiTimes}
    \cup {Obj([NoReply EXCEPT !.name = n, !.cuisine = n, !.servings = s]) :
             n \in AiValues, s \in AiValues}
    \cup {Obj([BaseReply EXCEPT !.ingredients = l, !.instructions = m]) :
             l \in AiValues, m \in {Undef, Arr(<<Str(BakeIt)>>), Str(BakeIt)}}
    \cup {Obj([r EXCEPT !.error = e]) : r \in {NoReply, BaseReply}, e \in AiErrors}

\* The reply texts: an object alone, an object in prose, braces in prose
ReplyTexts ==
    LET base == Json(Obj(BaseReply))
        x == Ch("x")
    IN {<<Json(o)>> : o \in ReplyObjects}
       \cup {<<>>, <<x>>, <<x, base, x>>, <<x, Ch("{"), Ch(" "), Ch("}")>>,
             <<Ch("{"), x, Ch("}")>>, <<Ch("}"), x, Ch("{")>>, <<Ch("{"), x>>,
             <<base, x, Ch("}")>>, <<Ch("{"), base>>, <<base, Ch(" "), base>>}

\* The behaviours of the language-model service in one call
Llms ==
    {[kind |-> "rejects"], [kind |-> "status"], [kind |-> "body"]}
    \cup {[kind |-> "json", data |-> d] :
             d \in {Null, EmptyObject, Obj([content |-> Arr(<<>>)]),
                    Obj([content |-> Arr(<<Obj([text |-> Num(4)])>>)])}}
    \cup {[kind |-> "json",
           data |-> Obj([content |-> Arr(<<Obj([text |-> Str(t)])>>)])] :
             t \in ReplyTexts}

(***************************************************************************)
(* The request handler                                                     *)
(***************************************************************************)
VARIABLES
    pc,       \* where the handler stands
    apiKey,   \* whether process.env.ANTHROPIC_API_KEY is set
    url,      \* the url of the request body
    doc,      \* the page fetched, as cheerio loaded it
    recipe,   \* the handler's variable recipe
    calls,    \* history: the extractors invoked so far, with what each returned
    llm,      \* history: how the language-model service behaved in this request
    status,   \* the status code of the response, 0 before the handler returns
    body,     \* the body of the response
    outputs,  \* the results of the Normalizer's runs on one candidate (SpecNorm)
    input,    \* the value a field parser is applied to (SpecParse), the
              \* parsed body of the latest sync request (SpecSync)
    store,    \* the blob store 'tavola-sync': its keys and their payloads
    uploaded  \* history: for each sync code, the data of the latest
              \* upload with that code that was answered 200

vars == <<pc, apiKey, url, doc, recipe, calls, llm, status, body, outputs, input, store, uploaded>>

NoLlm == [kind |-> "none"]

\* A store that holds no key
NoBlobs == [k \in {} |-> Null]

Methods == {"OPTIONS", "GET", "POST"}

\* JSON.parse(event.body): no JSON, an object without url, one with a url
EventBodies == {Throw, EmptyObject, Obj([url |-> EmptyStr]), Obj([url |-> PageUrl])}

Init ==
    /\ pc = "receive"
    /\ apiKey \in BOOLEAN
    /\ url = Undef
    /\ doc = Null
    /\ recipe = Null
    /\ calls = <<>>
    /\ llm = NoLlm
    /\ status = 0
    /\ body = Null
    /\ outputs = <<>>
    /\ input = Null
    /\ store = NoBlobs
    /\ uploaded = NoBlobs

\* The handler returns: a status code and a body
Return(code, b) ==
    /\ pc' = "done"
    /\ status' = code
    /\ body' = b

\* The checks before the try block, and the parse of the request body
Receive ==
    /\ pc = "receive"
    /\ \E method \in Methods, parsed \in EventBodies :
          IF method = "OPTIONS" THEN Return(200, Null) /\ url' = url
          ELSE IF method # "POST" THEN Return(405, Null) /\ url' = url
          ELSE IF parsed = Throw THEN Return(500, Null) /\ url' = url
          ELSE IF ~Truthy(Get(parsed, "url")) THEN Return(400, Null) /\ url' = url
          ELSE /\ pc' = "fetch"
               /\ url' = Get(parsed, "url")
               /\ UNCHANGED <<status, body>>
    /\ UNCHANGED <<apiKey, doc, recipe, calls, llm, outputs, input, store, uploaded>>

\* await fetch(url): it rejects, answers with an error status, or gives a page
FetchPage ==
    /\ pc = "fetch"
    /\ \/ Return(500, Null) /\ doc' = doc
       \/ Return(400, Null) /\ doc' = doc
       \/ \E d \in Docs :
             /\ doc' = d
             /\ pc' = "jsonld"
             /\ UNCHANGED <<status, body>>
    /\ UNCHANGED <<apiKey, url, recipe, calls, llm, outputs, input, store, uploaded>>

\* One extractor is invoked and its result assigned to recipe
Invoke(stage, result) ==
    /\ recipe' = result
    /\ calls' = Append(calls, [stage |-> stage, result |-> result])

\* let recipe = extractJsonLd($)
TryJsonLd ==
    /\ pc = "jsonld"
    /\ Invoke("extractJsonLd", extractJsonLd(doc))
    /\ pc' = "microdata"
    /\ UNCHANGED <<apiKey, url, doc, llm, status, body, outputs, input, store, uploaded>>

\* TryMicrodata without its guard: the stage runs whatever recipe holds
TryMicrodataUnguarded ==
    /\ pc = "microdata"
    /\ Invoke("extractMicrodata", extractMicrodata(doc))
    /\ pc' = "heuristic"
    /\ UNCHANGED <<apiKey, url, doc, llm, status, body, outputs, input, store, uploaded>>

\* if (!recipe) recipe = extractMicrodata($)
TryMicrodata ==
    /\ pc = "microdata"
    /\ IF ~Truthy(recipe) THEN Invoke("extractMicrodata", extractMicrodata(doc))
       ELSE UNCHANGED <<recipe, calls>>
    /\ pc' = "heuristic"
    /\ UNCHANGED <<apiKey, url, doc, llm, status, body, outputs, input, store, uploaded>>

\* if (!recipe) recipe = extractHeuristic($, url)
TryHeuristic ==
    /\ pc = "heuristic"
    /\ IF ~Truthy(recipe) THEN Invoke("extractHeuristic", extractHeuristic(doc))
       ELSE UNCHANGED <<recipe, calls>>
    /\ pc' = "claude"
    /\ UNCHANGED <<apiKey, url, doc, llm, status, body, outputs, input, store, uploaded>>

\* TryClaude without the test of the credential
TryClaudeWithoutKey ==
    /\ pc = "claude"
    /\ IF ~Truthy(recipe)
       THEN \E l \in Llms :
               /\ llm' = l
               /\ Invoke("extractWithClaude", extractWithClaude(l))
       ELSE UNCHANGED <<recipe, calls, llm>>
    /\ pc' = "respond"
    /\ UNCHANGED <<apiKey, url, doc, status, body, outputs, input, store, uploaded>>

\* if (!recipe && process.env.ANTHROPIC_API_KEY)
\*     recipe = await extractWithClaude($, url)
TryClaude ==
    /\ pc = "claude"
    /\ IF ~Truthy(recipe) /\ apiKey
       THEN \E l \in Llms :
               /\ llm' = l
               /\ Invoke("extractWithClaude", extractWithClaude(l))
       ELSE UNCHANGED <<recipe, calls, llm>>
    /\ pc' = "respond"
    /\ UNCHANGED <<apiKey, url, doc, status, body, outputs, input, store, uploaded>>

\* The 422 answer, or normalizeRecipe and the 200 answer; an exception of
\* normalizeRecipe reaches the catch block, which answers 500
Respond ==
    /\ pc = "respond"
    /\ IF ~Truthy(recipe) THEN Return(422, Null)
       ELSE \E now \in 0..MaxClock :
               IF normalizeRecipe(recipe, url, now) = Throw THEN Return(500, Null)
               ELSE Return(200, normalizeRecipe(recipe, url, now))
    /\ UNCHANGED <<apiKey, url, doc, recipe, calls, llm, outputs, input, store, uploaded>>

Next ==
    \/ Receive
    \/ FetchPage
    \/ TryJsonLd
    \/ TryMicrodata
    \/ TryHeuristic
    \/ TryClaude
    \/ Respond

Spec == Init /\ [][Next]_vars

(***************************************************************************)
(* The Normalizer on its own: normalizeRecipe is run, and run again, on    *)
(* one candidate with one source URL, the clock reading what it may.       *)
(***************************************************************************)
\* The candidates the four extractors return for the pages and the replies
Candidates ==
    ({extractJsonLd(d) : d \in Docs}
        \cup {extractMicrodata(d) : d \in Docs}
        \cup {extractHeuristic(d) : d \in Docs}
        \cup {extractWithClaude(l) : l \in Llms}) \ {Null}

\* The runs of normalizeRecipe on one candidate
MaxRuns == 2

InitNorm ==
    /\ pc = "normalize"
    /\ apiKey = FALSE
    /\ url \in {PageUrl, EmptyStr}
    /\ doc = Null
    /\ recipe \in Candidates
    /\ calls = <<>>
    /\ llm = NoLlm
    /\ status = 0
    /\ body = Null
    /\ outputs = <<>>
    /\ input = Null
    /\ store = NoBlobs
    /\ uploaded = NoBlobs

\* A run that writes the canonical fields back into the candidate
NormalizeInPlace ==
    /\ pc = "normalize"
    /\ Len(outputs) < MaxRuns
    /\ \E now \in 0..MaxClock :
          /\ outputs' = Append(outputs, normalizeRecipe(recipe, url, now))
          /\ recipe' = normalizeRecipe(recipe, url, now)
    /\ UNCHANGED <<pc, apiKey, url, doc, calls, llm, status, body, input, store, uploaded>>

\* normalizeRecipe(recipe, sourceUrl): it reads the candidate and returns a
\* new object (or raises); it assigns to nothing
Normalize ==
    /\ pc = "normalize"
    /\ Len(outputs) < MaxRuns
    /\ \E now \in 0..MaxClock :
          outputs' = Append(outputs, normalizeRecipe(recipe, url, now))
    /\ UNCHANGED <<pc, apiKey, url, doc, recipe, calls, llm, status, body, input, store, uploaded>>

NextNorm == Normalize

SpecNorm == InitNorm /\ [][NextNorm]_vars

(***************************************************************************)
(* The field parsers on their own: one parser is applied to one value.     *)
(***************************************************************************)
\* A component of a duration: a count, or NoPart when the text has none
NoPart == 0 - 1

DurationParts == {NoPart, 30, 45, 60, 61} \cup 0..MaxMinutes

\* "PT<h>H<m>M<s>S" without the components that are NoPart
IsoText(h, m, s) ==
    LET part(n, unit) == IF n = NoPart THEN <<>> ELSE NatToText(n) \o <<unit>>
    IN <<"P", "T">> \o part(h, "H") \o part(m, "M") \o part(s, "S")

IsoTexts == {Str(IsoText(h, m, s)) : h, m, s \in DurationParts}

\* Texts without a component of a duration: with and without the letters
\* PT, with and without a leading integer
PlainTexts ==
    {Str(<<"P", "T">>), Str(<<"p", "t">>), Str(<<"o", "p", "t">>),
     Str(<<"2", " ", "p", "t">>), Str(<<"2">>), Str(<<" ", "2", "x">>),
     Str(<<"-", "2">>), Str(<<"x", "2">>), Str(Cod), Str(Serves4), Str(Tagged),
     Str(Padded), EmptyStr}

\* Values of every JSON shape, and undefined for a field that is absent
JsonValues ==
    {Undef, Null, Num(0), Num(4), Bool(TRUE), Bool(FALSE),
     Arr(<<>>), Arr(<<Str(Serves4)>>), Arr(<<Num(4)>>), Arr(<<Null>>),
     Arr(<<EmptyStr, Str(Cod)>>), Arr(<<Obj([url |-> Str(ImgUrl)])>>),
     EmptyObject, Obj([url |-> Str(ImgUrl)]), Obj([url |-> Num(4)]),
     Obj(("@id" :> Str(ImgUrl))), Obj([calories |-> Str(Serves4)]),
     Obj([calories |-> Num(4)]), Obj([calories |-> Arr(<<>>)]),
     Obj([Calories |-> Str(Cod)]), Obj([text |-> Str(PTM(1))])}

ParserInputs == IsoTexts \cup PlainTexts \cup JsonValues

InitParse ==
    /\ pc = "parse"
    /\ apiKey = FALSE
    /\ url = Undef
    /\ doc = Null
    /\ recipe = Null
    /\ calls = <<>>
    /\ llm = NoLlm
    /\ status = 0
    /\ body = Null
    /\ outputs = <<>>
    /\ input \in ParserInputs
    /\ store = NoBlobs
    /\ uploaded = NoBlobs

\* One parser is applied to the input; what it returns (Throw when it
\* raises) is recorded in calls
Apply(parser, result) ==
    /\ pc = "parse"
    /\ pc' = "parsed"
    /\ calls' = Append(calls, [stage |-> parser, result |-> result])
    /\ UNCHANGED <<apiKey, url, doc, recipe, llm, status, body, outputs, input, store, uploaded>>

ApplyParseDuration == Apply("parseDuration", parseDuration(input))

ApplyParseServings == Apply("parseServings", parseServings(input))

ApplyParseImage == Apply("parseImage", parseImage(input))

ApplyParseCalories == Apply("parseCalories", parseCalories(input))

ApplyCleanText == Apply("cleanText", cleanText(input))

NextParse ==
    \/ ApplyParseDuration
    \/ ApplyParseServings
    \/ ApplyParseImage
    \/ ApplyParseCalories
    \/ ApplyCleanText

SpecParse == InitParse /\ [][NextParse]_vars

(***************************************************************************)
(* The sync store (src/netlify/functions/sync.js): one request after the   *)
(* other is handled against the blob store.                                *)
(***************************************************************************)
\* `tavola_sync_${syncCode.toLowerCase().replace(/[^a-z0-9-]/g, '_')}`
storageKey(syncCode) ==
    LET keep(c) == \/ IsDigit(c)
                   \/ c = "-"
                   \/ \E i \in 1..26 : LowerLetters[i] = c
    IN <<"t", "a", "v", "o", "l", "a", "_", "s", "y", "n", "c", "_">>
       \o [i \in 1..Len(syncCode[2]) |->
             IF keep(Lower(syncCode[2][i])) THEN Lower(syncCode[2][i]) ELSE "_"]

\* The least length of a sync code
MinSyncCode == 3

\* '3.0'
SyncVersion == Str(<<"3", ".", "0">>)

UploadAction == Str(<<"u", "p", "l", "o", "a", "d">>)
DownloadAction == Str(<<"d", "o", "w", "n", "l", "o", "a", "d">>)

\* The sync codes of at least 3 characters that the requests carry
SyncCodes ==
    {Str(<<"a", " ", "c">>), Str(<<"a", "_", "c">>), Str(<<"a", "b", "d">>)}

\* What JSON.parse(event.body || '{}') gives: no JSON, an object with a
\* sync code of 3 characters, or an object whose sync code is shorter,
\* missing, or a number
SyncBodies ==
    {Throw}
    \cup {Obj([action |-> a, syncCode |-> c, data |-> d]) :
             a \in {UploadAction, DownloadAction, Str(Cod)},
             c \in SyncCodes,
             d \in {Undef, Str(Cod), Str(Pie)}}
    \cup {Obj([action |-> UploadAction, syncCode |-> c, data |-> Str(Cod)]) :
             c \in {Str(<<"a", "b">>), Undef, Num(4)}}

\* @netlify/blobs in one request, and the clock when it works: it works,
\* the import fails, or the operation on the store raises
BlobsBehaviours ==
    {<<"works", now>> : now \in 0..MaxClock}
    \cup {<<"unavailable", 0>>, <<"raises", 0>>}

InitSync ==
    /\ pc = "sync"
    /\ apiKey = FALSE
    /\ url = Undef
    /\ doc = Null
    /\ recipe = Null
    /\ calls = <<>>
    /\ llm = NoLlm
    /\ status = 0
    /\ body = Null
    /\ outputs = <<>>
    /\ input = Null
    /\ store = NoBlobs
    /\ uploaded = NoBlobs

\* The handler answers; the store and the history stay as they are
Answer(code, b) ==
    /\ status' = code
    /\ body' = b
    /\ UNCHANGED <<store, uploaded>>

\* The CORS preflight
SyncPreflight ==
    /\ pc = "sync"
    /\ input' = Null
    /\ Answer(200, EmptyStr)
    /\ UNCHANGED <<pc, apiKey, url, doc, recipe, calls, llm, outputs>>

\* A request of any other method, from the parse of its body to the answer
Sync ==
    /\ pc = "sync"
    /\ \E parsed \in SyncBodies, behaviour \in BlobsBehaviours :
          LET blobs == behaviour[1]
              now == behaviour[2]
              action == Get(parsed, "action")
              syncCode == Get(parsed, "syncCode")
              data == Get(parsed, "data")
          IN /\ input' = parsed
             /\ IF parsed = Throw THEN Answer(500, Null)
                ELSE IF ~Truthy(syncCode) THEN Answer(400, Null)
                ELSE IF TypeOf(syncCode) = "string" /\ Len(syncCode[2]) < MinSyncCode
                     THEN Answer(400, Null)
                ELSE IF TypeOf(syncCode) # "string" THEN Answer(500, Null)
                ELSE IF blobs = "unavailable" THEN Answer(501, Null)
                ELSE IF action = UploadAction
                     THEN IF ~Truthy(data) THEN Answer(400, Null)
                          ELSE IF blobs = "raises" THEN Answer(500, Null)
                          ELSE /\ store' = (storageKey(syncCode) :>
                                              [data |-> data, uploadedAt |-> now,
                                               version |-> SyncVersion]) @@ store
                               /\ uploaded' = (syncCode :> data) @@ uploaded
                               /\ status' = 200
                               /\ body' = Obj([success |-> Bool(TRUE),
                                               uploadedAt |-> Num(now)])
                ELSE IF action = DownloadAction
                     THEN IF blobs = "raises" THEN Answer(500, Null)
                          ELSE IF storageKey(syncCode) \notin DOMAIN store
                               THEN Answer(404, Null)
                          ELSE Answer(200,
                                  Obj([success |-> Bool(TRUE),
                                       data |-> store[storageKey(syncCode)].data,
                                       uploadedAt |-> Num(store[storageKey(syncCode)].uploadedAt),
                                       version |-> store[storageKey(syncCode)].version]))
                ELSE Answer(400, Null)
    /\ UNCHANGED <<pc, apiKey, url, doc, recipe, calls, llm, outputs>>

NextSync ==
    \/ SyncPreflight
    \/ Sync

SpecSync == InitSync /\ [][NextSync]_vars

(***************************************************************************)
(* The cascade (C1, C2)                                                    *)
(***************************************************************************)
CascadeOrder ==
    <<"extractJsonLd", "extractMicrodata", "extractHeuristic", "extractWithClaude">>

\* The page has been fetched and the cascade has begun
Fetched == calls # <<>>

\* C1: the stages of one request are invoked in the order extractJsonLd,
\* extractMicrodata, extractHeuristic, extractWithClaude, each at most once
\* and only after every earlier stage returned null; and the candidate that
\* is normalized is the one the earliest stage with a result returned.
C1_CascadeOrder ==
    /\ Len(calls) <= Len(CascadeOrder)
    /\ \A i \in 1..Len(calls) : calls[i].stage = CascadeOrder[i]
    /\ \A i \in 1..Len(calls) - 1 : calls[i].result = Null
    /\ Fetched => recipe = calls[Len(calls)].result
    /\ Fetched /\ pc \in {"respond", "done"} /\ extractJsonLd(doc) # Null
          => recipe = extractJsonLd(doc)
    /\ status = 200 /\ Fetched
          => /\ calls[Len(calls)].result # Null
             /\ body = normalizeRecipe(calls[Len(calls)].result, url, body[2].importedAt)

\* A page with structured data and microdata was answered from the first stage
C1_Witness ==
    /\ status = 200
    /\ Fetched
    /\ extractJsonLd(doc) # Null
    /\ extractMicrodata(doc) # Null
    /\ Len(calls) = 1

\* C2: without a credential extractWithClaude is never invoked, and a
\* request whose three deterministic stages all returned null ends with 422.
C2_NoCredential ==
    ~apiKey =>
        /\ \A i \in 1..Len(calls) : calls[i].stage # "extractWithClaude"
        /\ /\ pc = "done"
           /\ Fetched
           /\ extractJsonLd(doc) = Null
           /\ extractMicrodata(doc) = Null
           /\ extractHeuristic(doc) = Null
           => status = 422

\* A page with no list item, no h1 and no title was answered 422 without
\* a credential
C2_Witness ==
    /\ ~apiKey
    /\ status = 422
    /\ doc.ul = <<>> /\ doc.ol = <<>> /\ doc.h1 = <<>> /\ doc.title = <<>>
    /\ Len(calls) = 3

(***************************************************************************)
(* The failures of the AI-assisted stage (C3, C4)                          *)
(***************************************************************************)
\* extractWithClaude was invoked in this request
AiCalled == Len(calls) = Len(CascadeOrder)

\* What JSON.parse made of the blob found in the reply of l: undefined when
\* the call did not get as far as a blob, Throw for a SyntaxError
ParsedReply(l) ==
    LET text == ReplyText(l.data)
    IN IF l.kind # "json" THEN Undef
       ELSE IF text = Throw \/ TypeOf(text) # "string" THEN Undef
       ELSE IF ~Truthy(BraceMatch(text[2])) THEN Undef
       ELSE JsonParse(At(BraceMatch(text[2]), 0)[2])

\* The reply of l is a text with no brace-delimited blob
NoBlob(l) ==
    /\ l.kind = "json"
    /\ TypeOf(Or(ReplyText(l.data), EmptyStr)) = "string"
    /\ ~Truthy(BraceMatch(Or(ReplyText(l.data), EmptyStr)[2]))

\* The failures other than an error field: the call rejects or times out,
\* the response is no success, the reply has no blob, the blob is no JSON
PlainFailure(l) ==
    \/ l.kind \in {"rejects", "status"}
    \/ NoBlob(l)
    \/ ParsedReply(l) = Throw

\* The parsed reply is an object with an error field, of whatever value
HasErrorField(l) ==
    /\ ParsedReply(l) \notin {Undef, Throw}
    /\ Get(ParsedReply(l), "error") # Undef

\* The parsed reply is an object whose error field is truthy
HasTruthyError(l) ==
    /\ ParsedReply(l) \notin {Undef, Throw}
    /\ Truthy(Get(ParsedReply(l), "error"))

\* The AI-assisted stage returned null and the request, once answered, 422
AiGaveNotFound ==
    /\ calls[Len(calls)].result = Null
    /\ pc = "done" => status = 422

\* C3 as stated: on every failure of the AI-assisted stage, an error field
\* in the parsed reply included, extractWithClaude returns null and the
\* request ends with 422.
C3_AsStated ==
    AiCalled /\ (PlainFailure(llm) \/ HasErrorField(llm)) => AiGaveNotFound

\* C3, amended: the same, for a parsed reply whose error field is truthy.
C3_AiFailureIsNotFound ==
    AiCalled /\ (PlainFailure(llm) \/ HasTruthyError(llm)) => AiGaveNotFound

\* A reply with the error object was answered 422
C3_Witness ==
    /\ AiCalled
    /\ HasTruthyError(llm)
    /\ status = 422

\* C4: a request whose page was fetched ends with 200 or with 422.
C4_NeverInternalError ==
    pc = "done" /\ Fetched => status \in {200, 422}

(***************************************************************************)
(* The candidate and the canonical Recipe (C5 to C9)                       *)
(***************************************************************************)
\* A candidate is usable: a name, or two ingredients, or two instructions
Usable(c) ==
    \/ Truthy(c[2].name)
    \/ IsArray(c[2].ingredients) /\ Len(c[2].ingredients[2]) >= 2
    \/ IsArray(c[2].instructions) /\ Len(c[2].instructions[2]) >= 2

\* C5: every candidate an extractor returns, and so every candidate that
\* reaches the Normalizer, is usable.
C5_CandidateUsable ==
    \A i \in 1..Len(calls) : calls[i].result # Null => Usable(calls[i].result)

\* C6: in a Recipe returned with 200, totalTime is prepTime + cookTime
\* whenever both are non-null.
C6_TotalTimeConsistent ==
    status = 200 /\ Fetched /\ body[2].prepTime # Null /\ body[2].cookTime # Null
        => body[2].totalTime = JsAdd(body[2].prepTime, body[2].cookTime)

\* A field of a candidate holds a value (0 included)
Present(x) == x \notin {Null, Undef}

\* C7: normalizeRecipe gives the candidate's totalTime when it has one (0
\* included), else prepTime + cookTime when it has both (0 included), else
\* null.
C7_TotalTimeRule ==
    status = 200 /\ Fetched =>
        body[2].totalTime =
            IF Present(recipe[2].totalTime) THEN recipe[2].totalTime
            ELSE IF Present(recipe[2].prepTime) /\ Present(recipe[2].cookTime)
                 THEN JsAdd(recipe[2].prepTime, recipe[2].cookTime)
            ELSE Null

\* A text is whitespace-normalized and tag-stripped
IsCleanText(s) ==
    /\ s # <<>> => s[1] \notin WS /\ s[Len(s)] \notin WS
    /\ \A i \in 1..Len(s) - 1 : ~(s[i] \in WS /\ s[i + 1] \in WS)
    /\ \A i \in 1..Len(s) : \A j \in i + 1..Len(s) : ~(s[i] = "<" /\ s[j] = ">")

\* C8: in a Recipe returned with 200, name, description, cuisine, category
\* and every ingredient and instruction are whitespace-normalized and
\* tag-stripped, so that cleanText leaves each unchanged.
C8_TextsClean ==
    status = 200 /\ Fetched =>
        /\ \A f \in {"name", "description", "cuisine", "category"} :
              /\ IsCleanText(body[2][f][2])
              /\ cleanText(body[2][f]) = body[2][f]
        /\ \A f \in {"ingredients", "instructions"} :
              \A i \in 1..Len(body[2][f][2]) :
                  /\ IsCleanText(body[2][f][2][i][2])
                  /\ cleanText(body[2][f][2][i]) = body[2][f][2][i]

\* C9: in a Recipe returned with 200, prepTime, cookTime, totalTime,
\* servings and calories are integers or null and image is a string.
C9_FieldTypes ==
    status = 200 /\ Fetched =>
        /\ \A f \in {"prepTime", "cookTime", "totalTime", "servings", "calories"} :
              body[2][f][1] \in {"number", "null"}
        /\ body[2].image[1] = "string"

(***************************************************************************)
(* The Normalizer run twice (C10)                                          *)
(***************************************************************************)
\* Two results of normalizeRecipe agree in every field but importedAt (two
\* runs that raise agree)
SameButStamp(a, b) ==
    IF a = Throw \/ b = Throw THEN a = b
    ELSE /\ DOMAIN a[2] = DOMAIN b[2]
         /\ \A f \in DOMAIN a[2] \ {"importedAt"} : a[2][f] = b[2][f]

RECURSIVE KeptClean(_)
KeptClean(l) ==
    IF l = <<>> THEN <<>>
    ELSE IF cleanText(Head(l)) = EmptyStr THEN KeptClean(Tail(l))
    ELSE <<cleanText(Head(l))>> \o KeptClean(Tail(l))

\* C11: in every Recipe normalizeRecipe returns, ingredients and
\* instructions are the candidate's entries, each cleaned, without those
\* that clean to the empty string and in the candidate's order; neither
\* list holds an empty string.
C11_ListsCleanedInOrder ==
    \A i \in 1..Len(outputs) :
        outputs[i] # Throw =>
            \A f \in {"ingredients", "instructions"} :
                /\ outputs[i][2][f] = Arr(KeptClean(recipe[2][f][2]))
                /\ \A k \in 1..Len(outputs[i][2][f][2]) :
                       outputs[i][2][f][2][k] # EmptyStr

\* A candidate with an ingredient that cleans to '' between two that do not
C11_Witness ==
    /\ pc = "normalize"
    /\ Len(outputs) >= 1
    /\ outputs[1] # Throw
    /\ Len(recipe[2].ingredients[2]) = 3
    /\ cleanText(recipe[2].ingredients[2][2]) = EmptyStr
    /\ Len(outputs[1][2].ingredients[2]) = 2

(***************************************************************************)
(* The field parsers (C12 to C14)                                          *)
(***************************************************************************)
\* The parser named p was applied to the input
Applied(p) == pc = "parsed" /\ calls[1].stage = p

\* The count a component stands for
PartValue(n) == IF n = NoPart THEN 0 ELSE n

\* C12: parseDuration of a text PT[h H][m M][s S], whichever of the three
\* components it has, is 60*h + m + ceil(s/60), a missing component counting
\* 0: PT1H30M gives 90, PT45S gives 1 and PT0H0M0S gives 0.
C12_IsoDuration ==
    Applied("parseDuration") =>
        /\ \A h, m, s \in DurationParts :
              input = Str(IsoText(h, m, s)) =>
                  calls[1].result =
                      Num(60 * PartValue(h) + PartValue(m)
                          + (IF PartValue(s) % 60 = 0 THEN PartValue(s) \div 60
                             ELSE (PartValue(s) \div 60) + 1))
        /\ input = Str(<<"P", "T", "1", "H", "3", "0", "M">>)
              => calls[1].result = Num(90)
        /\ input = Str(<<"P", "T", "4", "5", "S">>) => calls[1].result = Num(1)
        /\ input = Str(<<"P", "T", "0", "H", "0", "M", "0", "S">>)
              => calls[1].result = Num(0)

\* parseDuration gave 1 for PT45S
C12_Witness ==
    /\ Applied("parseDuration")
    /\ input = Str(<<"P", "T", "4", "5", "S">>)
    /\ calls[1].result = Num(1)

\* The text s has an hours, minutes or seconds component: the letters PT,
\* in either case, a run of digits right after them and then H, M or S
HasIsoComponent(s) ==
    \E i \in 1..Len(s) - 1 :
        /\ Lower(s[i]) = "p" /\ Lower(s[i + 1]) = "t"
        /\ \E j \in i + 2..Len(s) - 1 :
              /\ \A k \in i + 2..j : IsDigit(s[k])
              /\ Lower(s[j + 1]) \in {"h", "m", "s"}

\* C13: parseDuration of a text with no hours, minutes or seconds component
\* is the integer the text starts with, and null when it starts with none
\* (so a text that merely contains the letters PT gives no number of its own).
C13_PlainIntegerFallback ==
    Applied("parseDuration") /\ input[1] = "string" /\ ~HasIsoComponent(input[2])
        => calls[1].result = IF parseInt(input[2]) = NaN THEN Null
                             ELSE parseInt(input[2])

\* C14: each field parser returns a value for every input, of whatever
\* shape; it never raises.
C14_ParsersTotal ==
    pc = "parsed" => calls[1].result # Throw

(***************************************************************************)
(* The Structured-Data Extractor (C15 to C17)                              *)
(***************************************************************************)
\* o is an object whose @type is 'Recipe' or an array that contains 'Recipe'
TypedRecipe(o) ==
    /\ o[1] = "object"
    /\ "@type" \in DOMAIN o[2]
    /\ \/ o[2]["@type"] = RecipeType
       \/ /\ o[2]["@type"][1] = "array"
          /\ \E i \in 1..Len(o[2]["@type"][2]) : o[2]["@type"][2][i] = RecipeType

\* The first Recipe-typed member of a sequence of values, undefined if none
FirstTyped(items) ==
    IF \E i \in 1..Len(items) : TypedRecipe(items[i])
    THEN items[CHOOSE i \in 1..Len(items) :
                   /\ TypedRecipe(items[i])
                   /\ \A j \in 1..i - 1 : ~TypedRecipe(items[j])]
    ELSE Undef

\* The Recipe-typed object a script block contains: the top-level object,
\* a member of its @graph or a member of the top-level array; undefined
\* when the block contains none or is no JSON
RecipeOf(block) ==
    IF block[1] = "array" THEN FirstTyped(block[2])
    ELSE IF block[1] # "object" THEN Undef
    ELSE IF TypedRecipe(block) THEN block
    ELSE IF "@graph" \in DOMAIN block[2] /\ block[2]["@graph"][1] = "array"
         THEN FirstTyped(block[2]["@graph"][2])
    ELSE Undef

\* The indices of the script blocks of the page that contain a Recipe
RecipeBlocks == {i \in 1..Len(doc.scripts) : RecipeOf(doc.scripts[i]) # Undef}

\* The first of them
FirstRecipeBlock == CHOOSE i \in RecipeBlocks : \A j \in RecipeBlocks : i <= j

\* C15: extractJsonLd returns the candidate mapped from the first script
\* block that contains a Recipe-typed object, the blocks before it being
\* skipped, and returns null if and only if no block contains one.
C15_FirstRecipeBlockWins ==
    Fetched =>
        /\ calls[1].result = Null <=> RecipeBlocks = {}
        /\ RecipeBlocks # {} =>
              calls[1].result = parseSchemaRecipe(RecipeOf(doc.scripts[FirstRecipeBlock]))

\* The page has one script block, {"@graph": [...]}, and exactly one entry
\* of the array is Recipe-typed
OneRecipeGraph ==
    /\ Len(doc.scripts) = 1
    /\ doc.scripts[1][1] = "object"
    /\ "@graph" \in DOMAIN doc.scripts[1][2]
    /\ doc.scripts[1][2]["@graph"][1] = "array"
    /\ Cardinality({i \in 1..Len(doc.scripts[1][2]["@graph"][2]) :
                       TypedRecipe(doc.scripts[1][2]["@graph"][2][i])}) = 1

C17_NoBlankInstruction ==
    Fetched /\ calls[1].result # Null =>
        \A k \in 1..Len(calls[1].result[2].instructions[2]) :
            /\ calls[1].result[2].instructions[2][k][1] = "string"
            /\ Trim(calls[1].result[2].instructions[2][k][2]) # <<>>

(***************************************************************************)
(* The Microdata Extractor (C18)                                           *)
(***************************************************************************)
\* extractMicrodata was invoked in this request
MicrodataCalled == Len(calls) >= 2 /\ calls[2].stage = "extractMicrodata"

\* C18: extractMicrodata returns null if and only if the page has no
\* element annotated as a schema.org Recipe item; when there is one it
\* returns a candidate object, even with every field empty, whose calories
\* is null.
C18_MicrodataCandidate ==
    MicrodataCalled =>
        /\ calls[2].result = Null <=> doc.micro.count = 0
        /\ doc.micro.count > 0 =>
              /\ calls[2].result[1] = "object"
              /\ calls[2].result[2].calories = Null

\* A Recipe item with no annotated property gave a candidate of empty fields
C18_Witness ==
    /\ MicrodataCalled
    /\ doc.micro = BareMicro
    /\ calls[2].result # Null
    /\ calls[2].result[2].name = EmptyStr
    /\ calls[2].result[2].ingredients = Arr(<<>>)
    /\ calls[2].result[2].instructions = Arr(<<>>)

(***************************************************************************)
(* The Heuristic Extractor (C19)                                           *)
(***************************************************************************)
\* extractHeuristic was invoked in this request
HeuristicCalled == Len(calls) >= 3 /\ calls[3].stage = "extractHeuristic"

\* The first h1 has a text, or the title has one
TitleFound ==
    \/ doc.h1 # <<>> /\ Trim(doc.h1[1]) # <<>>
    \/ Trim(JoinTexts(doc.title, <<>>)) # <<>>

\* The item of an unordered list is an ingredient candidate
IsIngredientItem(t) ==
    /\ Len(Trim(t)) >= 4
    /\ Len(Trim(t)) <= 199
    /\ looksLikeIngredient(Trim(t))

\* The item of an ordered list is an instruction candidate
IsInstructionItem(t) == Len(Trim(t)) >= 11 /\ Len(Trim(t)) <= 999

\* The ingredient candidates of a list, trimmed, in the order of the list
RECURSIVE IngredientItems(_)
IngredientItems(items) ==
    IF items = <<>> THEN <<>>
    ELSE IF IsIngredientItem(Head(items))
         THEN <<Str(Trim(Head(items)))>> \o IngredientItems(Tail(items))
    ELSE IngredientItems(Tail(items))

\* The instruction candidates of a list, trimmed, in the order of the list
RECURSIVE InstructionItems(_)
InstructionItems(items) ==
    IF items = <<>> THEN <<>>
    ELSE IF IsInstructionItem(Head(items))
         THEN <<Str(Trim(Head(items)))>> \o InstructionItems(Tail(items))
    ELSE InstructionItems(Tail(items))

\* C19: extractHeuristic returns null exactly when no title is found or
\* fewer than 2 ingredient candidates and fewer than 2 instruction
\* candidates were collected; an item of an unordered list is an ingredient
\* candidate iff its trimmed text has 4 to 199 characters and looks like an
\* ingredient, an item of an ordered list an instruction candidate iff its
\* trimmed text has 11 to 999 characters.
C19_HeuristicRule ==
    HeuristicCalled =>
        /\ calls[3].result = Null <=>
              \/ ~TitleFound
              \/ /\ Len(IngredientItems(doc.ul)) < 2
                 /\ Len(InstructionItems(doc.ol)) < 2
        /\ calls[3].result # Null =>
              /\ calls[3].result[2].ingredients = Arr(IngredientItems(doc.ul))
              /\ calls[3].result[2].instructions = Arr(InstructionItems(doc.ol))

\* Two ingredients of 4 and of 199 characters were enough for a candidate
C19_Witness ==
    /\ HeuristicCalled
    /\ calls[3].result # Null
    /\ Len(doc.ul) = 2
    /\ Len(Trim(doc.ul[1])) = 4
    /\ Len(Trim(doc.ul[2])) = 199
    /\ doc.ol = <<>>

(***************************************************************************)
(* The blob of the reply (C20)                                             *)
(***************************************************************************)
\* The reply of l is a text, and the first of its characters that is a
\* brace opens a serialized object: the first balanced blob of the reply
FirstBlobIsObject(l) ==
    /\ l.kind = "json"
    /\ TypeOf(ReplyText(l.data)) = "string"
    /\ \E i \in 1..Len(ReplyText(l.data)[2]) :
          /\ ReplyText(l.data)[2][i][1] = "json"
          /\ \A j \in 1..i - 1 : ReplyText(l.data)[2][j] \notin {Ch("{"), Ch("}")}
          /\ \A j \in 1..i - 1 : ReplyText(l.data)[2][j][1] # "json"

\* That object
FirstBlob(l) ==
    LET text == ReplyText(l.data)[2]
    IN text[CHOOSE i \in 1..Len(text) :
                /\ text[i][1] = "json"
                /\ \A j \in 1..i - 1 : text[j][1] # "json"][2]

\* C20: extractWithClaude parses the first balanced-brace blob of the
\* reply: when that blob is a recipe object the call returns the candidate
\* built from it, whatever braces the text after it holds.
C20_FirstBalancedBlob ==
    AiCalled /\ FirstBlobIsObject(llm) /\ ~Truthy(Get(FirstBlob(llm), "error"))
        => calls[Len(calls)].result = ClaudeCandidate(FirstBlob(llm))

(***************************************************************************)
(* The sync store (C21, C22)                                               *)
(***************************************************************************)
\* A sync code that the check of line 31 lets through as a text
ValidSyncCode(c) == TypeOf(c) = "string" /\ Len(c[2]) >= MinSyncCode

\* The request answered last asked for the action a with a valid sync code
Asked(a) ==
    /\ TypeOf(input) = "object"
    /\ Get(input, "action") = a
    /\ ValidSyncCode(Get(input, "syncCode"))

\* The request answered last is a download with a valid sync code, and the
\* store answered it: with data, or with the no-data outcome
Downloaded == Asked(DownloadAction) /\ status \in {200, 404}

\* The request answered last is an upload that succeeded
Uploaded == Asked(UploadAction) /\ status = 200

\* In this step a download, or a request that is rejected with 400, is
\* answered
DownloadOrRejected ==
    /\ TypeOf(input') = "object"
    /\ Get(input', "action") = DownloadAction \/ status' = 400

\* C21: a download with a valid sync code returns the data of the most
\* recent successful upload made with that same sync code, and the 404
\* no-data outcome if no upload with that code has succeeded; downloads and
\* rejected requests leave the store unchanged.
C21_SyncRoundTrip ==
    /\ [](Downloaded =>
            IF Get(input, "syncCode") \in DOMAIN uploaded
            THEN /\ status = 200
                 /\ Get(body, "data") = uploaded[Get(input, "syncCode")]
            ELSE status = 404)
    /\ [][DownloadOrRejected => store' = store]_vars

\* What a download under the sync code c returns from the store st
DownloadFrom(st, c) ==
    IF storageKey(c) \in DOMAIN st THEN <<200, st[storageKey(c)]>> ELSE <<404>>

\* C22: for any two different valid sync codes A and B, an upload under A
\* never changes what a download under B returns, and a download under B
\* never returns data that was uploaded under A: what it returns was
\* uploaded under B.
C22_SyncCodesIsolated ==
    /\ [][Uploaded' =>
            \A B \in SyncCodes \ {Get(input', "syncCode")} :
                DownloadFrom(store', B) = DownloadFrom(store, B)]_vars
    /\ [](Downloaded /\ status = 200 =>
            /\ Get(input, "syncCode") \in DOMAIN uploaded
            /\ Get(body, "data") = uploaded[Get(input, "syncCode")])

=============================================================================
